---------------------------- MODULE Spec2Model ----------------------------
(***************************************************************************)
(* vue3-game-analytics: the analytics store (event queue, sampling gate,   *)
(* flush lifecycle, persistence), the CircularBuffer utility, and the      *)
(* component side (event enrichment, throttle, the timed-interaction       *)
(* tracker of useGameAnalytics, the v-track directive).  The               *)
(* store keeps its queue in a plain array and never constructs a           *)
(* CircularBuffer; the buffer is exercised on its own (SpecBuffer).        *)
(*                                                                         *)
(* The store is single-threaded JavaScript: every action below is one      *)
(* macrotask/microtask run to completion.  The only suspension points are  *)
(* the awaited fetch inside flushEvents and the runWhenIdle callbacks.     *)
(*                                                                         *)
(* Numbers that are fractions in the source (sampleRate, Math.random) are  *)
(* counted in tenths: 10 stands for 1.0.                                   *)
(***************************************************************************)
EXTENDS Integers, Sequences, FiniteSets, TLC

VARIABLES
  state,   \* the store's reactive state (GameAnalyticsState)
  env,     \* the browser: localStorage, navigator, the fetch in flight, timers
  obs,     \* what the last top-level call did (fetches issued, draws made, ...)
  cb,      \* a CircularBuffer instance (its private fields)
  log,     \* the calls made on cb: the items pushed, the last call's result
  comp     \* the component side: what a utility, the composable or the
           \* directive holds in its closure, and what its last call did

vars == <<state, env, obs, cb, log, comp>>

-----------------------------------------------------------------------------
(* Bounds of the model *)

\* UUIDs generated over a whole behaviour (admitted trackEvent calls)
MaxTracks == 3
\* config.maxQueueSize offered to initialize
MaxQueue == 2
\* the last instant of the clock the throttle scenarios run to
MaxClock == 12

\* the longest throttle interval
MaxWait == 3

\* events an application hands to $gameAnalytics before the app is mounted
MaxHeld == 2

\* cap on the failedSubmissions counter
MaxFailures == 1
\* runWhenIdle callbacks told apart while pending; callbacks beyond this number
\* run back to back with the last one
MaxIdle == 1
\* largest capacity a CircularBuffer is constructed with
MaxCapacity == 3
\* push calls made on one CircularBuffer
MaxPushes == 5

-----------------------------------------------------------------------------
(* Events *)

\* event.id === undefined
Undefined == 0
\* an id the caller put into the partial event (any string the caller chooses)
CallerId == 0 - 1
\* the partial event carries no id key
NoId == 0 - 2

\* Partial<GameAnalyticsEvent> as passed to trackEvent: the id key (absent or
\* a caller's string), the type key ("" = absent) and whether the payload
\* (metadata, elementData) holds a circular reference.
Partial(id, type, cyclic) == [id |-> id, type |-> type, cyclic |-> cyclic]

\* partial events offered to trackEvent: a plain one, one whose payload holds
\* a circular reference, one with an id of the caller's, one with a type
PlainPartial == Partial(NoId, "", FALSE)
CyclicPartial == Partial(NoId, "", TRUE)
IdPartial == Partial(CallerId, "", FALSE)
ClickPartial == Partial(NoId, "click", FALSE)

\* the event of the plugin's performance sampling
PerformancePartial == Partial(NoId, "performance", FALSE)

\* the synthetic event of a failed flush
ErrorPartial == [id |-> NoId, type |-> "error", cyclic |-> FALSE]

\* outcomes of one call of config.eventTransformer, which is handed the full
\* event object itself: it returns the event as it is, returns it without id,
\* throws at once, or removes the id from the object in place and then throws
TransformOutcomes == {"same", "dropId", "throws", "mutatesThrows"}

\* Math.random() results, in tenths, within [0, 1)
Draws == {0, 5, 9}

\* the nondeterministic inputs one trackEvent call consumes
Choices == [draw : Draws, transform : TransformOutcomes]

-----------------------------------------------------------------------------
(* Configuration *)

DEFAULT_OPTIONS ==
  [ batchSize |-> 50, flushInterval |-> 60000, maxQueueSize |-> 1000,
    trackErrors |-> TRUE, sampleRate |-> 10, respectDoNotTrack |-> TRUE,
    consentRequired |-> TRUE, eventTransformer |-> FALSE,
    trackPerformance |-> FALSE, debug |-> FALSE ]

\* the options object an application hands to the plugin; every key of
\* DEFAULT_OPTIONS is supplied
Options(batchSize, trackErrors, sampleRate, consentRequired, respectDoNotTrack, eventTransformer) ==
  [ batchSize |-> batchSize, flushInterval |-> 1, maxQueueSize |-> MaxQueue,
    trackErrors |-> trackErrors, sampleRate |-> sampleRate,
    respectDoNotTrack |-> respectDoNotTrack,
    consentRequired |-> consentRequired,
    eventTransformer |-> eventTransformer,
    trackPerformance |-> FALSE, debug |-> FALSE,
    gameId |-> "game", playId |-> "play" ]

\* the applications of the delivery scenarios: auto-flush at two events, no
\* privacy gate, error tracking on or off
DeliveryOptions ==
  { Options(2, te, 10, FALSE, FALSE, FALSE) : te \in BOOLEAN }

-----------------------------------------------------------------------------
(* The world an operation runs in: the three variables as one record *)

World == [st |-> state, env |-> env, obs |-> obs]

InitialState ==
  [ events |-> << >>,
    config |-> DEFAULT_OPTIONS,
    isEnabled |-> FALSE,
    isDebugMode |-> FALSE,
    hasConsent |-> FALSE,
    bufferInfo |-> [size |-> 0, overflowCount |-> 0],
    networkStatus |-> [isOnline |-> TRUE],
    pendingFlush |-> FALSE,
    failedSubmissions |-> 0,
    lastFlushTime |-> 0 ]      \* 0 stands for null

\* Date.now(): the behaviours modelled happen within one instant of the clock
Date_now == 1

NoFetch == [active |-> FALSE, batch |-> << >>]

\* nothing observed yet: the call's name, the fetches it issued, the sampling
\* draws it made, the events it pushed, whether it threw, how the fetch it
\* resumed from had settled, the queued events clearEvents dropped, whether
\* removeItem found the persisted key, and whether the eventTransformer threw
NoObs ==
  [op |-> "", fetches |-> 0, draws |-> 0, pushes |-> 0, threw |-> FALSE,
   outcome |-> "", dropped |-> 0, erased |-> FALSE, transformThrew |-> FALSE]


\* no store instance of the reactive-state variant created yet
NoInstance ==
  [created |-> FALSE, isEnabled |-> FALSE, isDebugMode |-> FALSE,
   hasConsent |-> FALSE]

\* useAnalyticsStore() of the reactive-state variant: the first call builds
\* the instance by spreading readonly(state), which copies the value each
\* primitive property has at that moment; later calls return the same object
useAnalyticsStore(w) ==
  IF w.env.storeInstance.created THEN w
  ELSE [w EXCEPT !.env.storeInstance =
          [created |-> TRUE, isEnabled |-> w.st.isEnabled,
           isDebugMode |-> w.st.isDebugMode, hasConsent |-> w.st.hasConsent]]

\* the instance every caller holds: the one the application's first
\* useAnalyticsStore() call built, before any action of the store ran
FirstInstance ==
  useAnalyticsStore([st |-> InitialState,
                     env |-> [storeInstance |-> NoInstance]]).env.storeInstance

\* the world at the start of a top-level call named op; obs names the call
\* when it is one of the calls under observation (env.watch)
Begin(op) ==
  [World EXCEPT !.obs = [NoObs EXCEPT !.op = IF op \in env.watch THEN op ELSE ""]]

-----------------------------------------------------------------------------
(* utils *)

\* a shouldSampleEvent(rate) that compares the draw without the two shortcuts
shouldSampleEvent_DrawOnly(rate, draw) == draw <= rate

\* shouldSampleEvent(rate) with Math.random() = draw (both in tenths)
shouldSampleEvent(rate, draw) ==
  IF rate >= 10 THEN TRUE
  ELSE IF rate <= 0 THEN FALSE
  ELSE draw <= rate

\* whether shouldSampleEvent(rate) reaches its Math.random() call
SampleDraws(rate) == ~(rate >= 10) /\ ~(rate <= 0)

\* safeStringify followed by JSON.parse: a circular reference is replaced by
\* the string "[Circular]", a key holding undefined is dropped (and reads back
\* as undefined)
StorageRoundTrip(e) == [e EXCEPT !.cyclic = FALSE]

\* JSON.stringify (no replacer) throws on a circular structure
StringifyThrows(batch) == \E i \in DOMAIN batch : batch[i].cyclic

\* persistToStorage(key, data): setItem throws when storage is denied or the
\* quota is exceeded; the error is caught and false returned
persistToStorage(w, data, quotaOK) ==
  IF w.env.storageDenied \/ ~quotaOK THEN w
  ELSE [w EXCEPT !.env.storage =
          [kind |-> "events",
           events |-> [i \in DOMAIN data |-> StorageRoundTrip(data[i])]]]

\* retrieveFromStorage(key): null (here: kind "absent") when the key is absent
\* or reading throws
retrieveFromStorage(w) ==
  IF w.env.storageDenied THEN [kind |-> "absent", events |-> << >>]
  ELSE w.env.storage

\* localStorage.removeItem(key) where it does not throw
removeItem(w) ==
  [w EXCEPT !.env.storage = [kind |-> "absent", events |-> << >>],
            !.obs.erased = (w.env.storage.kind = "events")]

\* runWhenIdle(callback): one more callback waits for an idle slot
runWhenIdle(w) ==
  [w EXCEPT !.env.idle = IF @ < MaxIdle THEN @ + 1 ELSE @]

\* Array.prototype.slice(-k) for k > 0
SliceLast(seq, k) ==
  IF Len(seq) <= k THEN seq ELSE SubSeq(seq, Len(seq) - k + 1, Len(seq))

-----------------------------------------------------------------------------
(* getters *)

isTrackingAllowed(w) ==
  IF ~w.st.isEnabled THEN FALSE
  ELSE IF w.st.config.consentRequired /\ ~w.st.hasConsent THEN FALSE
  ELSE IF w.st.config.respectDoNotTrack /\ w.env.doNotTrack THEN FALSE
  ELSE TRUE

eventCount(w) == Len(w.st.events)

\* the read accessors useGameAnalytics() returns: computed refs over the
\* Pinia store, read at the moment of the call
useGameAnalytics(w) ==
  [ isDebugMode |-> w.st.isDebugMode,
    hasConsent |-> w.st.hasConsent,
    eventCount |-> eventCount(w),
    isEnabled |-> w.st.isEnabled,
    isOnline |-> w.st.networkStatus.isOnline ]

-----------------------------------------------------------------------------
(* actions of the store, as functions from world to world.  rnd is the       *)
(* sequence of nondeterministic inputs (Math.random, the transformer's       *)
(* behaviour) the trackEvent calls made within one run consume in order.     *)

RECURSIVE trackEvent(_, _, _)
RECURSIVE addEventToQueue(_, _, _)
RECURSIVE flushEvents(_, _)
RECURSIVE flushCatch(_, _)
RECURSIVE buildAndQueue(_, _, _)

\* a saveEventsToStorage() that writes the queue even when it is empty
saveEventsToStorage_Always(w, quotaOK) ==
  persistToStorage(w, w.st.events, quotaOK)

\* saveEventsToStorage()
saveEventsToStorage(w, quotaOK) ==
  IF Len(w.st.events) > 0 THEN persistToStorage(w, w.st.events, quotaOK) ELSE w

\* clearEvents()
clearEvents(w) ==
  [w EXCEPT !.st.events = << >>, !.st.bufferInfo.size = 0,
            !.obs.dropped = Len(w.st.events)]

\* a flushEvents whose pendingFlush reset sits at the end of the try block
\* instead of in finally
flushFinally_OnlyOnSuccess(w) ==
  IF w.obs.outcome = "ok" THEN [w EXCEPT !.st.pendingFlush = FALSE] ELSE w

\* the finally block of flushEvents
flushFinally(w) == [w EXCEPT !.st.pendingFlush = FALSE]

\* a catch block of flushEvents that rethrows the error once it is counted
flushCatch_Rethrows(w, rnd) ==
  LET w1 == [w EXCEPT !.st.failedSubmissions = @ + 1]
      w2 == IF w1.st.config.trackErrors
            THEN trackEvent(w1, ErrorPartial, rnd)
            ELSE w1
  IN [flushFinally(w2) EXCEPT !.obs.threw = TRUE]

\* a catch block of flushEvents that runs after pendingFlush has been reset
flushCatch_ResetsFirst(w, rnd) ==
  LET w1 == [flushFinally(w) EXCEPT !.st.failedSubmissions = @ + 1]
  IN IF w1.st.config.trackErrors
     THEN trackEvent(w1, ErrorPartial, rnd)
     ELSE w1

\* a catch block of flushEvents that builds and queues the error event itself
\* instead of handing it to trackEvent
flushCatch_QueuesDirectly(w, rnd) ==
  LET w1 == [w EXCEPT !.st.failedSubmissions = @ + 1]
      w2 == IF w1.st.config.trackErrors
            THEN buildAndQueue(w1, ErrorPartial, rnd)
            ELSE w1
  IN flushFinally(w2)

\* the catch block of flushEvents, followed by finally; an error thrown by
\* the statements of the catch block itself would leave the call (obs.threw)
flushCatch(w, rnd) ==
  LET w1 == [w EXCEPT !.st.failedSubmissions = @ + 1]
      w2 == IF w1.st.config.trackErrors
            THEN trackEvent(w1, ErrorPartial, rnd)
            ELSE w1
  IN flushFinally(w2)

\* flushEvents() without the pendingFlush guard
flushEvents_NoPendingGuard(w, rnd) ==
  IF Len(w.st.events) = 0 THEN w
  ELSE IF ~w.st.networkStatus.isOnline THEN w
  ELSE LET w1 == [w EXCEPT !.st.pendingFlush = TRUE]
           eventsToSend == w1.st.events
       IN IF StringifyThrows(eventsToSend)
          THEN flushCatch(w1, rnd)
          ELSE [w1 EXCEPT !.env.fetch = [active |-> TRUE, batch |-> eventsToSend],
                          !.obs.fetches = @ + 1]

\* flushEvents() without the offline guard
flushEvents_NoOfflineGuard(w, rnd) ==
  IF Len(w.st.events) = 0 \/ w.st.pendingFlush THEN w
  ELSE LET w1 == [w EXCEPT !.st.pendingFlush = TRUE]
           eventsToSend == w1.st.events
       IN IF StringifyThrows(eventsToSend)
          THEN flushCatch(w1, rnd)
          ELSE [w1 EXCEPT !.env.fetch = [active |-> TRUE, batch |-> eventsToSend],
                          !.obs.fetches = @ + 1]

\* flushEvents() up to the awaited fetch
flushEvents(w, rnd) ==
  IF Len(w.st.events) = 0 \/ w.st.pendingFlush THEN w
  ELSE IF ~w.st.networkStatus.isOnline THEN w
  ELSE LET w1 == [w EXCEPT !.st.pendingFlush = TRUE]
           eventsToSend == w1.st.events
       IN IF StringifyThrows(eventsToSend)
          THEN flushCatch(w1, rnd)
          ELSE [w1 EXCEPT !.env.fetch = [active |-> TRUE, batch |-> eventsToSend],
                          !.obs.fetches = @ + 1]

\* flushEvents() after the awaited fetch has settled: response.ok (outcome
\* "ok"), a non-2xx response ("status") or a rejected promise ("reject")
flushResume(w, outcome, rnd) ==
  LET eventsToSend == w.env.fetch.batch
      w0 == [w EXCEPT !.env.fetch = NoFetch, !.obs.outcome = outcome]
  IN IF outcome # "ok" THEN flushCatch(w0, rnd)
     ELSE LET w1 == [w0 EXCEPT
                       !.st.events = SelectSeq(w0.st.events,
                           LAMBDA e : ~(\E i \in DOMAIN eventsToSend :
                                           eventsToSend[i].id = e.id)),
                       !.st.lastFlushTime = Date_now]
              w2 == [w1 EXCEPT !.st.bufferInfo.size = Len(w1.st.events)]
          IN IF w2.env.storageDenied
             THEN flushCatch(w2, rnd)      \* localStorage.removeItem throws
             ELSE flushFinally(removeItem(w2))

\* addEventToQueue(event)
addEventToQueue(w, event, rnd) ==
  LET w1 == [w EXCEPT !.st.events = Append(@, event),
                      !.st.bufferInfo.size = Len(w.st.events) + 1,
                      !.obs.pushes = @ + 1]
      max == w1.st.config.maxQueueSize
      w2 == IF max # 0 /\ Len(w1.st.events) > max
            THEN [w1 EXCEPT !.st.events = SliceLast(@, max),
                            !.st.bufferInfo.size = Len(SliceLast(w1.st.events, max)),
                            !.st.bufferInfo.overflowCount = @ + 1]
            ELSE w1
      w3 == IF w2.st.config.batchSize # 0
               /\ Len(w2.st.events) >= w2.st.config.batchSize
            THEN flushEvents(w2, rnd)
            ELSE w2
  IN runWhenIdle(w3)

\* the part of trackEvent(event) past the gate and the sampling: build the
\* full event (a generated id first, the caller's keys spread over it), apply
\* the eventTransformer, queue the result
buildAndQueue(w, event, rnd) ==
  LET c == Head(rnd)
      uuid == w.env.uuid
      fullEvent ==
        [ id |-> IF event.id = NoId THEN uuid ELSE event.id,
          n |-> uuid,
          type |-> IF event.type = "" THEN "custom" ELSE event.type,
          cyclic |-> event.cyclic ]
      w1 == [w EXCEPT !.env.uuid = @ + 1]
      wt == [w1 EXCEPT !.obs.transformThrew = TRUE]
  IN IF w1.st.config.eventTransformer
     THEN IF c.transform = "throws"
          THEN addEventToQueue(wt, fullEvent, Tail(rnd))
          ELSE IF c.transform = "mutatesThrows"
          THEN addEventToQueue(wt, [fullEvent EXCEPT !.id = Undefined],
                               Tail(rnd))
          ELSE IF c.transform = "dropId"
          THEN addEventToQueue(w1, [fullEvent EXCEPT !.id = Undefined],
                               Tail(rnd))
          ELSE addEventToQueue(w1, fullEvent, Tail(rnd))
     ELSE addEventToQueue(w1, fullEvent, Tail(rnd))

\* a trackEvent(event) that samples first and looks at the gate afterwards
trackEvent_SampleFirst(w, event, rnd) ==
  LET rate == w.st.config.sampleRate
      wd == IF rate < 10 /\ SampleDraws(rate)
            THEN [w EXCEPT !.obs.draws = @ + 1] ELSE w
  IN IF rate < 10 /\ ~shouldSampleEvent(rate, Head(rnd).draw) THEN wd
     ELSE IF ~isTrackingAllowed(wd) THEN wd
     ELSE buildAndQueue(wd, event, rnd)

\* trackEvent(event)
trackEvent(w, event, rnd) ==
  IF ~isTrackingAllowed(w) THEN w
  ELSE
    LET rate == w.st.config.sampleRate
        wd == IF rate < 10 /\ SampleDraws(rate)
              THEN [w EXCEPT !.obs.draws = @ + 1] ELSE w
    IN IF rate < 10 /\ ~shouldSampleEvent(rate, Head(rnd).draw) THEN wd
       ELSE buildAndQueue(wd, event, rnd)

\* an initialize(options) that does not look at the persisted events
initialize_SkipsRestore(w, options) ==
  [w EXCEPT !.st.config = options,
            !.st.isDebugMode = options.debug,
            !.st.isEnabled = TRUE,
            !.env.flushTimer = (options.flushInterval > 0),
            !.st.networkStatus.isOnline = w.env.onLine,
            !.env.unloadHook = TRUE]

\* initialize(options)
initialize(w, options) ==
  LET stored == retrieveFromStorage(w)
      w1 == [w EXCEPT !.st.config = options,
                      !.st.isDebugMode = options.debug]
      w2 == IF stored.kind = "events"
            THEN [w1 EXCEPT !.st.events = stored.events,
                            !.st.bufferInfo.size = Len(stored.events)]
            ELSE w1
  IN [w2 EXCEPT !.st.isEnabled = TRUE,
                !.env.flushTimer = (options.flushInterval > 0),
                !.st.networkStatus.isOnline = w.env.onLine,
                !.env.unloadHook = TRUE]

\* setDebugMode(enabled)
setDebugMode(w, enabled) == [w EXCEPT !.st.isDebugMode = enabled]

\* a setConsent(hasConsent) that only records the decision
setConsent_GatesOnly(w, hasConsent) == [w EXCEPT !.st.hasConsent = hasConsent]

\* setConsent(hasConsent); throws out of localStorage.removeItem when storage
\* is denied
setConsent(w, hasConsent) ==
  LET w1 == [w EXCEPT !.st.hasConsent = hasConsent]
  IN IF hasConsent THEN w1
     ELSE IF w1.env.storageDenied
          THEN [clearEvents(w1) EXCEPT !.obs.threw = TRUE]
          ELSE removeItem(clearEvents(w1))

\* updateNetworkStatus(status)
updateNetworkStatus(w, isOnline, rnd) ==
  LET wasOffline == ~w.st.networkStatus.isOnline
      w1 == [w EXCEPT !.st.networkStatus.isOnline = isOnline]
  IN IF wasOffline /\ isOnline /\ Len(w1.st.events) > 0
     THEN flushEvents(w1, rnd)
     ELSE w1

\* a filterEvents(filterFn) that leaves bufferInfo.size as it was
filterEvents_KeepsSize(w, keep) ==
  LET kept == SelectSeq([i \in DOMAIN w.st.events |-> [e |-> w.st.events[i], i |-> i]],
                        LAMBDA x : x.i \in keep)
  IN [w EXCEPT !.st.events = [i \in DOMAIN kept |-> kept[i].e]]

\* filterEvents(filterFn): keep is the set of positions filterFn accepts
filterEvents(w, keep) ==
  LET kept == SelectSeq([i \in DOMAIN w.st.events |-> [e |-> w.st.events[i], i |-> i]],
                        LAMBDA x : x.i \in keep)
      w1 == [w EXCEPT !.st.events = [i \in DOMAIN kept |-> kept[i].e]]
  IN [w1 EXCEPT !.st.bufferInfo.size = Len(w1.st.events)]


-----------------------------------------------------------------------------
(* CircularBuffer *)

\* an empty slot of the backing array
Null == 0

OverflowStrategies == {"discard-oldest", "discard-newest", "error"}

\* the options a CircularBuffer is constructed with
CircularBufferOptions ==
  [capacity : 1..MaxCapacity, overflowStrategy : OverflowStrategies]

\* new CircularBuffer(options); the backing array is indexed from 0
CircularBuffer(options) ==
  [ buffer |-> [i \in 0..(options.capacity - 1) |-> Null],
    head |-> 0, tail |-> 0, size |-> 0,
    capacity |-> options.capacity,
    overflowStrategy |-> options.overflowStrategy,
    overflowCount |-> 0 ]

\* a call's effect: the buffer afterwards and what the call returned
Returns(b, ret) == [b |-> b, ret |-> ret]

\* a dequeue() that takes the newest item instead of the oldest
dequeue_TakesNewest(b) ==
  IF b.size = 0 THEN Returns(b, Null)
  ELSE LET last == (b.tail + b.capacity - 1) % b.capacity
       IN Returns([b EXCEPT !.buffer[last] = Null,
                            !.tail = last,
                            !.size = b.size - 1],
                  b.buffer[last])

\* a dequeue() that leaves the removed item in its slot
dequeue_KeepsSlot(b) ==
  IF b.size = 0 THEN Returns(b, Null)
  ELSE Returns([b EXCEPT !.head = (b.head + 1) % b.capacity,
                         !.size = b.size - 1],
               b.buffer[b.head])

\* dequeue(): ret is the item removed, Null on an empty buffer
dequeue(b) ==
  IF b.size = 0 THEN Returns(b, Null)
  ELSE Returns([b EXCEPT !.buffer[b.head] = Null,
                         !.head = (b.head + 1) % b.capacity,
                         !.size = b.size - 1],
               b.buffer[b.head])

\* the tail of push(item): store at the tail position, advance, count
pushAtTail(b, item) ==
  Returns([b EXCEPT !.buffer[b.tail] = item,
                    !.tail = (b.tail + 1) % b.capacity,
                    !.size = b.size + 1],
          "true")

\* a push(item) that treats every full buffer as discard-newest does
push_DiscardsNewest(b, item) ==
  IF b.size = b.capacity
  THEN IF b.overflowStrategy = "error" THEN Returns(b, "throws")
       ELSE Returns([b EXCEPT !.overflowCount = @ + 1], "false")
  ELSE pushAtTail(b, item)

\* a push(item) that rejects under discard-newest without counting
push_RejectsUncounted(b, item) ==
  IF b.size = b.capacity
  THEN CASE b.overflowStrategy = "discard-oldest" ->
              pushAtTail(dequeue(b).b, item)
         [] b.overflowStrategy = "discard-newest" ->
              Returns(b, "false")
         [] b.overflowStrategy = "error" ->
              Returns(b, "throws")
  ELSE pushAtTail(b, item)

\* a push(item) that makes room under the error strategy instead of throwing
push_ErrorEvicts(b, item) ==
  IF b.size = b.capacity
  THEN CASE b.overflowStrategy = "discard-oldest" ->
              pushAtTail(dequeue(b).b, item)
         [] b.overflowStrategy = "discard-newest" ->
              Returns([b EXCEPT !.overflowCount = @ + 1], "false")
         [] b.overflowStrategy = "error" ->
              pushAtTail(dequeue(b).b, item)
  ELSE pushAtTail(b, item)

\* push(item): ret is "true", "false", or "throws" for the overflow error
push(b, item) ==
  IF b.size = b.capacity
  THEN CASE b.overflowStrategy = "discard-oldest" ->
              pushAtTail(dequeue(b).b, item)
         [] b.overflowStrategy = "discard-newest" ->
              Returns([b EXCEPT !.overflowCount = @ + 1], "false")
         [] b.overflowStrategy = "error" ->
              Returns(b, "throws")
  ELSE pushAtTail(b, item)

\* getItems(): the non-null slots of the size positions from head on
getItems(b) ==
  SelectSeq([i \in 1..b.size |-> b.buffer[(b.head + i - 1) % b.capacity]],
            LAMBDA item : item # Null)

\* a clear() that also resets the overflow counter
clear_ResetsCounter(b) ==
  [b EXCEPT !.buffer = [i \in DOMAIN b.buffer |-> Null],
            !.head = 0, !.tail = 0, !.size = 0, !.overflowCount = 0]

\* a clear() that leaves head where it was
clear_KeepsHead(b) ==
  [b EXCEPT !.buffer = [i \in DOMAIN b.buffer |-> Null],
            !.tail = 0, !.size = 0]

\* clear()
clear(b) ==
  [b EXCEPT !.buffer = [i \in DOMAIN b.buffer |-> Null],
            !.head = 0, !.tail = 0, !.size = 0]

\* drain(): ret is the items that were in the buffer
drain(b) == Returns(clear(b), getItems(b))

getSize(b) == b.size

getOverflowCount(b) == b.overflowCount

\* no CircularBuffer constructed; no call made
NoBuffer == << >>
NoLog == << >>

\* no component-side program under study
NoComponent == << >>

\* the log of a buffer just constructed: the items pushed so far, the last
\* call and its result, whether every call so far was a push, and whether
\* every push so far returned true
NewLog ==
  [pushed |-> << >>, op |-> "new", ret |-> "", onlyPushes |-> TRUE,
   allTrue |-> TRUE]

-----------------------------------------------------------------------------
(* The state machine *)

\* the browsers at page load, for an application whose plugin options are
\* among options and that tracks the events partials; localStorage is denied
\* for denied = TRUE, the Do Not Track signal is sent for dnt = TRUE; watch
\* names the calls obs reports
Browsers(options, partials, denied, dnt, watch) ==
  [ options : options,
    partials : {partials},
    watch : {watch},
    storage : {[kind |-> "absent", events |-> << >>]},
    storageDenied : denied,
    onLine : {TRUE},
    doNotTrack : dnt,
    fetch : {NoFetch},
    idle : {0},
    flushTimer : {FALSE},
    unloadHook : {FALSE},
    netMonitor : {FALSE},
    perfTimer : {FALSE},
    storeInstance : {FirstInstance},
    unmounted : {FALSE},
    uuid : {1} ]

\* a page load: the store as constructed
PageLoad(options, partials, denied, dnt, watch) ==
  /\ state = InitialState
  /\ env \in Browsers(options, partials, denied, dnt, watch)
  /\ obs = NoObs

\* a page load of an application that uses the store and no CircularBuffer
InitWith(options, partials, denied, dnt, watch) ==
  /\ PageLoad(options, partials, denied, dnt, watch)
  /\ cb = NoBuffer
  /\ log = NoLog
  /\ comp = NoComponent

Init ==
  InitWith(DeliveryOptions, {PlainPartial, CyclicPartial}, BOOLEAN, {FALSE},
           {"flushEvents", "flushResume"})

\* the counters the model caps
Bounded(w) ==
  /\ w.env.uuid <= MaxTracks + 1
  /\ w.st.failedSubmissions <= MaxFailures

Step(w) ==
  /\ Bounded(w)
  /\ state' = w.st
  /\ env' = w.env
  /\ obs' = w.obs
  /\ UNCHANGED <<cb, log, comp>>

\* the inputs of one trackEvent call: any Math.random() result, and any
\* behaviour of the eventTransformer where one is configured
ChoicesHere ==
  [ draw : Draws,
    transform : IF state.config.eventTransformer THEN TransformOutcomes
                ELSE {"same"} ]

\* the inputs of the trackEvent call a failed flush makes for its error
\* event; with trackErrors off there is no such call
ErrorChoices ==
  IF state.config.trackErrors THEN ChoicesHere
  ELSE {[draw |-> 0, transform |-> "same"]}

\* plugin install: store.initialize(options), then monitorNetworkStatus, which
\* registers its listeners and reports the current status once, then the
\* performance-sampling interval where options.trackPerformance is set
Initialize ==
  /\ ~state.isEnabled
  /\ \E c \in ErrorChoices :
       LET w == [initialize(Begin("initialize"), env.options)
                   EXCEPT !.env.netMonitor = TRUE,
                          !.env.perfTimer = env.options.trackPerformance]
       IN Step(updateNetworkStatus(w, w.env.onLine, <<c>>))

TrackEvent ==
  \E event \in env.partials, c1 \in ChoicesHere, c2 \in ErrorChoices :
    Step(trackEvent(Begin("trackEvent"), event, <<c1, c2>>))

\* a manual flushEvents() call
FlushEvents ==
  \E c \in ErrorChoices : Step(flushEvents(Begin("flushEvents"), <<c>>))

\* the fetch of the flush in flight settles and flushEvents resumes
FetchSettles ==
  /\ env.fetch.active
  /\ \E outcome \in {"ok", "status", "reject"}, c \in ErrorChoices :
       Step(flushResume(Begin("flushResume"), outcome, <<c>>))

\* the setInterval callback armed by initialize
FlushTimerFires ==
  /\ env.flushTimer
  /\ \E c \in ErrorChoices :
       Step(IF Len(state.events) > 0
            THEN flushEvents(Begin("flushTimer"), <<c>>)
            ELSE Begin("flushTimer"))

\* an online/offline event of the window: navigator.onLine changes and the
\* monitorNetworkStatus listener, while registered, calls updateNetworkStatus
NetworkChanges ==
  \E isOnline \in BOOLEAN, c \in ErrorChoices :
    LET w == [Begin("network") EXCEPT !.env.onLine = isOnline]
    IN Step(IF w.env.netMonitor
            THEN updateNetworkStatus(w, isOnline, <<c>>)
            ELSE w)

SetConsent ==
  \E hasConsent \in BOOLEAN :
    Step(setConsent(Begin(IF hasConsent THEN "grantConsent" ELSE "revokeConsent"),
                    hasConsent))

ClearEvents == Step(clearEvents(Begin("clearEvents")))

FilterEvents ==
  \E keep \in SUBSET (DOMAIN state.events) :
    Step(filterEvents(Begin("filterEvents"), keep))

SetDebugMode ==
  \E enabled \in BOOLEAN : Step(setDebugMode(Begin("setDebugMode"), enabled))

\* a callback scheduled by runWhenIdle runs
IdleCallback ==
  /\ env.idle > 0
  /\ \E quotaOK \in BOOLEAN :
       Step(saveEventsToStorage([Begin("idle") EXCEPT !.env.idle = @ - 1], quotaOK))

\* the beforeunload listener registered by initialize
BeforeUnload ==
  /\ env.unloadHook
  /\ \E quotaOK \in BOOLEAN, c \in ErrorChoices :
       LET w == saveEventsToStorage(Begin("beforeunload"), quotaOK)
       IN Step(IF Len(w.st.events) > 0 /\ w.env.onLine
               THEN flushEvents(w, <<c>>)
               ELSE w)

\* app.unmount as overridden by the plugin
Unmount ==
  /\ env.netMonitor
  /\ \E c \in ErrorChoices :
       Step(flushEvents([Begin("unmount") EXCEPT !.env.netMonitor = FALSE,
                                                 !.env.perfTimer = FALSE,
                                                 !.env.unmounted = TRUE],
                        <<c>>))

\* the performance-sampling setInterval callback armed by the plugin
PerformanceTimerFires ==
  /\ env.perfTimer
  /\ \E c1 \in ChoicesHere, c2 \in ErrorChoices :
       Step(trackEvent(Begin("perfTimer"), PerformancePartial, <<c1, c2>>))

\* the page is loaded anew: a fresh store, the same localStorage
Reload ==
  /\ state.isEnabled
  /\ state' = InitialState
  /\ env' = [env EXCEPT !.fetch = NoFetch, !.idle = 0, !.flushTimer = FALSE,
                        !.unloadHook = FALSE, !.netMonitor = FALSE,
                        !.perfTimer = FALSE, !.unmounted = FALSE,
                        !.storeInstance = FirstInstance]
  /\ obs' = Begin("reload").obs
  /\ UNCHANGED <<cb, log, comp>>

Next ==
  \/ Initialize
  \/ TrackEvent
  \/ FlushEvents
  \/ FetchSettles
  \/ FlushTimerFires
  \/ NetworkChanges
  \/ SetConsent
  \/ ClearEvents
  \/ FilterEvents
  \/ IdleCallback
  \/ BeforeUnload
  \/ Unmount
  \/ Reload

Spec == Init /\ [][Next]_vars

\* an application whose callers put ids of their own into events; obs reports
\* the resumed flushes
InitIds ==
  InitWith({ Options(2, FALSE, 10, FALSE, FALSE, FALSE) },
           {PlainPartial, IdPartial}, {FALSE}, {FALSE}, {"flushResume"})

SpecIds == InitIds /\ [][Next]_vars

\* the delivery applications again; obs reports trackEvent and the resumed
\* flushes
InitBatch ==
  InitWith(DeliveryOptions, {PlainPartial, CyclicPartial}, {FALSE}, {FALSE},
           {"trackEvent", "flushResume"})

SpecBatch == InitBatch /\ [][Next]_vars

\* applications that differ in their privacy gate and sampling rate: consent
\* required, Do Not Track respected in a browser that sends the signal, and
\* no gate at all with sampling rates below, within and above [0, 1]; obs
\* reports trackEvent
InitGate ==
  \/ InitWith({ Options(2, FALSE, sr, TRUE, FALSE, FALSE) : sr \in {5, 10} },
              {PlainPartial}, {FALSE}, {FALSE}, {"trackEvent"})
  \/ InitWith({ Options(2, FALSE, sr, FALSE, TRUE, FALSE) : sr \in {5, 10} },
              {PlainPartial}, {FALSE}, {TRUE}, {"trackEvent"})
  \/ InitWith({ Options(2, FALSE, sr, FALSE, FALSE, FALSE) :
                  sr \in {0 - 5, 0, 5, 10, 15} },
              {PlainPartial}, {FALSE}, {FALSE}, {"trackEvent"})

SpecGate == InitGate /\ [][Next]_vars

\* applications that require consent, in browsers with and without access to
\* localStorage; obs reports the revocations
InitConsent ==
  InitWith({ Options(2, te, 10, TRUE, FALSE, FALSE) : te \in BOOLEAN },
           {PlainPartial}, BOOLEAN, {FALSE}, {"revokeConsent"})

SpecConsent == InitConsent /\ [][Next]_vars

\* an application with an eventTransformer; obs reports trackEvent
InitTransform ==
  InitWith({ Options(2, FALSE, 10, FALSE, FALSE, TRUE) },
           {PlainPartial}, {FALSE}, {FALSE}, {"trackEvent"})

SpecTransform == InitTransform /\ [][Next]_vars

\* an application whose events may hold circular references, over several
\* page loads, in browsers with and without access to localStorage; obs
\* reports initialize
InitPersist ==
  InitWith({ Options(2, FALSE, 10, FALSE, FALSE, FALSE) },
           {PlainPartial, CyclicPartial}, BOOLEAN, {FALSE}, {"initialize"})

SpecPersist == InitPersist /\ [][Next]_vars

\* an application that clears and filters its queue; obs reports the two
\* calls
InitRemoval ==
  InitWith({ Options(2, FALSE, 10, FALSE, FALSE, FALSE) },
           {PlainPartial}, {FALSE}, {FALSE}, {"clearEvents", "filterEvents"})

SpecRemoval == InitRemoval /\ [][Next]_vars

\* an application with performance tracking on; obs reports the two timers
InitTimers ==
  InitWith({ [Options(2, FALSE, 10, FALSE, FALSE, FALSE)
                EXCEPT !.trackPerformance = TRUE] },
           {PlainPartial}, {FALSE}, {FALSE}, {"flushTimer", "perfTimer"})

NextTimers ==
  \/ Next
  \/ PerformanceTimerFires

SpecTimers == InitTimers /\ [][NextTimers]_vars

\* an application that requires consent and switches debug mode, its state
\* read through the accessors
InitAccessors ==
  InitWith({ Options(2, FALSE, 10, TRUE, FALSE, FALSE) },
           {PlainPartial}, {FALSE}, {FALSE}, {})

NextAccessors ==
  \/ Next
  \/ SetDebugMode

SpecAccessors == InitAccessors /\ [][NextAccessors]_vars

\* applications that require consent and sample, with error tracking on or
\* off; obs reports the resumed flushes
InitErrors ==
  InitWith({ Options(2, te, sr, TRUE, FALSE, FALSE) :
               te \in BOOLEAN, sr \in {5, 10} },
           {PlainPartial}, {FALSE}, {FALSE}, {"flushResume"})

SpecErrors == InitErrors /\ [][Next]_vars

\* an application whose batchSize is beyond its maxQueueSize, so that no
\* trackEvent starts a flush; obs reports trackEvent
InitQueue ==
  InitWith({ Options(MaxQueue + 1, FALSE, 10, FALSE, FALSE, FALSE) },
           {PlainPartial}, {FALSE}, {FALSE}, {"trackEvent"})

SpecQueue == InitQueue /\ [][Next]_vars

\* the endpoint answers the submission in flight with a 2xx response
FetchOk ==
  /\ env.fetch.active
  /\ \E c \in ErrorChoices : Step(flushResume(Begin("flushResume"), "ok", <<c>>))

\* an application without a privacy gate and without error tracking, whose
\* callers may hand trackEvent an object that JSON.stringify rejects
InitLive ==
  InitWith({ Options(2, FALSE, 10, FALSE, FALSE, FALSE) },
           {PlainPartial, CyclicPartial}, {FALSE}, {FALSE}, {})

\* one page session that stays online: no online/offline event, no unload
NextLive ==
  \/ Initialize
  \/ TrackEvent
  \/ FlushEvents
  \/ FetchSettles
  \/ FlushTimerFires
  \/ SetConsent
  \/ ClearEvents
  \/ FilterEvents
  \/ IdleCallback

\* the setInterval callback keeps firing, the endpoint answers every
\* submission, and it does not answer with failures for ever
SpecLive ==
  /\ InitLive
  /\ [][NextLive]_vars
  /\ WF_vars(FlushTimerFires)
  /\ WF_vars(FetchSettles)
  /\ SF_vars(FetchOk)

\* the applications that share the origin's storage key: they differ in
\* maxQueueSize only, and none starts a flush from trackEvent
Deployments ==
  { [Options(MaxQueue + 1, FALSE, 10, FALSE, FALSE, FALSE)
       EXCEPT !.maxQueueSize = max] : max \in 1..MaxQueue }

\* the page is left and another application of the origin is loaded: a new
\* store, another options object, the same localStorage
Redeploy ==
  /\ state.isEnabled
  /\ \E options \in Deployments \ {env.options} :
       env' = [env EXCEPT !.options = options,
                          !.fetch = NoFetch, !.idle = 0, !.flushTimer = FALSE,
                          !.unloadHook = FALSE, !.netMonitor = FALSE,
                          !.perfTimer = FALSE, !.unmounted = FALSE,
                          !.storeInstance = FirstInstance]
  /\ state' = InitialState
  /\ obs' = Begin("reload").obs
  /\ UNCHANGED <<cb, log, comp>>

InitDeploy ==
  InitWith(Deployments, {PlainPartial}, {FALSE}, {FALSE}, {"initialize"})

NextDeploy ==
  \/ Next
  \/ Redeploy

SpecDeploy == InitDeploy /\ [][NextDeploy]_vars

-----------------------------------------------------------------------------
(* The CircularBuffer on its own: one instance, any call sequence *)

\* the plugin is not installed; a buffer of any capacity and strategy
InitBuffer ==
  /\ PageLoad({DEFAULT_OPTIONS}, {}, {FALSE}, {FALSE}, {})
  /\ cb \in { CircularBuffer(options) : options \in CircularBufferOptions }
  /\ log = NewLog
  /\ comp = NoComponent

\* one call on cb: the buffer afterwards, the call's name and result
Call(op, r, onlyPushes) ==
  /\ cb' = r.b
  /\ log' = [log EXCEPT !.op = op, !.ret = r.ret,
                         !.onlyPushes = @ /\ onlyPushes]
  /\ UNCHANGED <<state, env, obs, comp>>

\* push(item) with the next item of the series 1, 2, 3, ...
Push ==
  /\ Len(log.pushed) < MaxPushes
  /\ LET item == Len(log.pushed) + 1
         r == push(cb, item)
     IN /\ cb' = r.b
        /\ log' = [log EXCEPT !.pushed = Append(@, item),
                               !.op = "push", !.ret = r.ret,
                               !.allTrue = @ /\ r.ret = "true"]
        /\ UNCHANGED <<state, env, obs, comp>>

Dequeue == Call("dequeue", dequeue(cb), FALSE)

GetItems == Call("getItems", Returns(cb, getItems(cb)), TRUE)

Drain == Call("drain", drain(cb), FALSE)

Clear == Call("clear", Returns(clear(cb), ""), FALSE)

NextBuffer ==
  \/ Push
  \/ Dequeue
  \/ GetItems
  \/ Drain
  \/ Clear

SpecBuffer == InitBuffer /\ [][NextBuffer]_vars


-----------------------------------------------------------------------------
(* Claims about the flush lifecycle *)

\* C1: at most one network submission is in flight: a step taken while a
\* flush is pending issues no fetch, and a flushEvents() call made while a
\* flush is pending changes nothing at all.
C1_SingleFlight ==
  [][ (state.pendingFlush \/ env.fetch.active) =>
        /\ obs'.fetches = 0
        /\ (obs'.op = "flushEvents" => state' = state /\ env' = env) ]_vars

\* C1 witness: flushEvents() was called while the fetch of an earlier flush
\* was outstanding, and that fetch is still the only one.
C1_Witness ==
  /\ obs.op = "flushEvents"
  /\ state.pendingFlush /\ env.fetch.active
  /\ Len(state.events) > 0 /\ state.networkStatus.isOnline
  /\ obs.fetches = 0

\* C4: pendingFlush is true only while the fetch of a flush is outstanding:
\* whichever way the fetch settles, and also when building the request throws,
\* the flag is false again when the run ends.
C4_PendingOnlyInFlight == state.pendingFlush => env.fetch.active

\* C4 witness: a flush whose fetch settled as a failure has handed the flag
\* back.
C4_Witness ==
  /\ obs.op = "flushResume" /\ obs.outcome \in {"status", "reject"}
  /\ state.failedSubmissions > 0
  /\ ~state.pendingFlush /\ ~env.fetch.active

\* C5: flushEvents() with an empty queue, or while offline, is a no-op: no
\* fetch, no error, and the store and the browser state (persisted storage
\* included) are as before.
C5_FlushNoOp ==
  [][ (obs'.op = "flushEvents"
        /\ (Len(state.events) = 0 \/ ~state.networkStatus.isOnline)) =>
        /\ state' = state /\ env' = env
        /\ obs'.fetches = 0 /\ ~obs'.threw ]_vars

\* C5 witness: flushEvents() was called offline with events queued and no
\* flush pending.
C5_Witness ==
  /\ obs.op = "flushEvents"
  /\ ~state.networkStatus.isOnline
  /\ Len(state.events) > 0 /\ ~state.pendingFlush

\* the events of before that are still in after, in after's order
Kept(before, after) ==
  SelectSeq(after, LAMBDA e : \E i \in DOMAIN before : before[i] = e)

\* C3: when the fetch of a flush fails (non-2xx response or transport error),
\* every event that was queued at that moment is still queued, in the same
\* order, once the failure has been handled.
C3_QueueKeptOnFailure ==
  [][ (obs'.op = "flushResume" /\ obs'.outcome \in {"status", "reject"}) =>
        Kept(state.events, state'.events) = state.events ]_vars


\* C2: when the fetch of a flush succeeds, the queue afterwards is the queue of
\* before without the events of the snapshot taken when the flush started: the
\* events pushed since (and still queued) remain, in push order.
C2_SuccessRemovesSnapshot ==
  [][ (obs'.op = "flushResume" /\ obs'.outcome = "ok") =>
        state'.events =
          SelectSeq(state.events,
                    LAMBDA e : ~(\E i \in DOMAIN env.fetch.batch :
                                    env.fetch.batch[i] = e)) ]_vars

-----------------------------------------------------------------------------
(* Claims about consent, gating and sampling *)

\* C6: once setConsent(false) has run, the queue is empty and the persisted
\* events key is absent from storage, whatever was queued or persisted before
\* and whether or not a flush is in flight.
C6_RevocationErases ==
  obs.op = "revokeConsent" =>
    /\ Len(state.events) = 0
    /\ state.bufferInfo.size = 0
    /\ env.storage.kind = "absent"

\* C6 witness: consent was revoked while a flush was in flight; the call
\* dropped queued events and removed the persisted key.
C6_Witness ==
  /\ obs.op = "revokeConsent" /\ ~obs.threw
  /\ obs.dropped > 0 /\ obs.erased
  /\ env.fetch.active /\ state.pendingFlush
  /\ Len(state.events) = 0 /\ env.storage.kind = "absent"

\* the deterministic checks reject: not enabled, consent required and not
\* granted, or Do Not Track respected and signalled
Gated ==
  \/ ~state.isEnabled
  \/ state.config.consentRequired /\ ~state.hasConsent
  \/ state.config.respectDoNotTrack /\ env.doNotTrack

\* C7: a trackEvent call made while the deterministic checks reject queues
\* nothing and makes no sampling draw, for any sampleRate.
C7_GateBeforeSampling ==
  [][ (obs'.op = "trackEvent" /\ Gated) =>
        /\ obs'.pushes = 0 /\ obs'.draws = 0
        /\ state'.events = state.events ]_vars

\* C7 witness: trackEvent was called on an initialized store with a fractional
\* sampleRate, consent required and not granted: nothing drawn, nothing queued.
C7_Witness ==
  /\ obs.op = "trackEvent"
  /\ state.isEnabled /\ state.config.consentRequired /\ ~state.hasConsent
  /\ state.config.sampleRate = 5
  /\ obs.pushes = 0 /\ obs.draws = 0

\* C8: a trackEvent call that passes the deterministic checks queues its event
\* when sampleRate >= 1 and queues nothing when sampleRate <= 0, whatever
\* Math.random() returns.
C8_SamplingExtremes ==
  [][ (obs'.op = "trackEvent" /\ ~Gated) =>
        /\ state.config.sampleRate >= 10 =>
              /\ obs'.pushes >= 1
              /\ state'.events[Len(state'.events)].n = env.uuid
        /\ state.config.sampleRate <= 0 =>
              /\ obs'.pushes = 0
              /\ state'.events = state.events ]_vars

\* C8 witness: with a sampleRate above 1 an allowed trackEvent call queued
\* its event.
C8_Witness ==
  /\ obs.op = "trackEvent" /\ ~Gated
  /\ state.config.sampleRate = 15
  /\ obs.pushes = 1 /\ Len(state.events) > 0

\* C9: a trackEvent call whose push brings the queue to batchSize or more,
\* online and with no flush in flight, starts a network submission within the
\* call; and when a submission succeeds with nothing pushed meanwhile, the
\* queue is empty and lastFlushTime is set.
C9_BatchFlush ==
  [][ /\ ( /\ obs'.op = "trackEvent" /\ obs'.pushes >= 1
           /\ state.config.batchSize > 0
           /\ Len(state'.events) >= state.config.batchSize
           /\ state.networkStatus.isOnline /\ ~state.pendingFlush )
         => (obs'.fetches = 1 /\ env'.fetch.active)
      /\ ( /\ obs'.op = "flushResume" /\ obs'.outcome = "ok"
           /\ state.events = env.fetch.batch )
         => (state'.events = << >> /\ state'.lastFlushTime # 0) ]_vars

-----------------------------------------------------------------------------
(* Claims about the CircularBuffer *)

\* C10: under discard-oldest with capacity c >= 1, after n > c pushes and no
\* other mutation, getItems() is the last c items pushed, in push order,
\* getSize() is c, and every push returned true.
C10_DiscardOldestKeepsLast ==
  ( /\ cb.overflowStrategy = "discard-oldest"
    /\ log.onlyPushes
    /\ Len(log.pushed) > cb.capacity ) =>
      /\ getItems(cb) = SliceLast(log.pushed, cb.capacity)
      /\ getSize(cb) = cb.capacity
      /\ log.allTrue

\* C10 witness: a discard-oldest buffer of capacity 2 has taken five pushes
\* and nothing else, and was then read.
C10_Witness ==
  /\ cb.overflowStrategy = "discard-oldest" /\ cb.capacity = 2
  /\ log.onlyPushes /\ Len(log.pushed) = 5
  /\ log.op = "getItems" /\ log.ret = <<4, 5>>

\* C11: under discard-newest, a push on a full buffer returns false, adds
\* exactly 1 to overflowCount, and leaves the contents, their order and the
\* size (the whole backing array and both pointers) as they were.
C11_DiscardNewestRejects ==
  [][ ( /\ log'.op = "push" /\ Len(log'.pushed) > Len(log.pushed)
        /\ cb.overflowStrategy = "discard-newest"
        /\ cb.size = cb.capacity ) =>
        /\ log'.ret = "false"
        /\ cb'.overflowCount = cb.overflowCount + 1
        /\ getItems(cb') = getItems(cb)
        /\ getSize(cb') = getSize(cb)
        /\ cb' = [cb EXCEPT !.overflowCount = @ + 1] ]_vars

\* C11 witness: a full discard-newest buffer of capacity 2 has rejected its
\* second push in a row.
C11_Witness ==
  /\ cb.overflowStrategy = "discard-newest" /\ cb.capacity = 2
  /\ log.op = "push" /\ log.ret = "false"
  /\ cb.overflowCount = 2 /\ getItems(cb) = <<1, 2>>

\* C12: under the error strategy, a push on a full buffer throws and leaves
\* contents, order, size and overflowCount as they were; a push on a buffer
\* below capacity does not throw, under any strategy.
C12_ErrorStrategyThrows ==
  [][ (log'.op = "push" /\ Len(log'.pushed) > Len(log.pushed)) =>
        /\ (cb.overflowStrategy = "error" /\ cb.size = cb.capacity) =>
              (log'.ret = "throws" /\ cb' = cb)
        /\ cb.size < cb.capacity =>
              (log'.ret = "true" /\ getItems(cb') = Append(getItems(cb), Len(log'.pushed))) ]_vars

\* C12 witness: a full error-strategy buffer has thrown on a push and still
\* holds what it held.
C12_Witness ==
  /\ cb.overflowStrategy = "error" /\ cb.capacity = 2
  /\ log.op = "push" /\ log.ret = "throws"
  /\ getItems(cb) = <<1, 2>> /\ cb.overflowCount = 0

\* C13: overflowCount grows by 1 on a push rejected under discard-newest and
\* is left unchanged by every other call: an evicting push under
\* discard-oldest, dequeue, getItems, drain and clear.
C13_OverflowCountFrame ==
  [][ cb'.overflowCount =
        IF /\ log'.op = "push" /\ Len(log'.pushed) > Len(log.pushed)
           /\ cb.overflowStrategy = "discard-newest"
           /\ cb.size = cb.capacity
        THEN cb.overflowCount + 1
        ELSE cb.overflowCount ]_vars

\* C13 witness: a buffer that has counted overflows was cleared: it is empty
\* and the counter stands.
C13_Witness ==
  /\ log.op = "clear" /\ cb.size = 0
  /\ cb.overflowCount = 2

\* the buffer after pushing the items in order
RECURSIVE pushAll(_, _)
pushAll(b, items) ==
  IF items = << >> THEN b ELSE pushAll(push(b, Head(items)).b, Tail(items))

\* C14: drain() returns what getItems() returned before it and leaves the
\* buffer empty, and pushing the drained items back in order restores
\* getItems(), wherever head and tail were and under any strategy.
C14_DrainRoundTrip ==
  [][ log'.op = "drain" =>
        /\ log'.ret = getItems(cb)
        /\ getSize(cb') = 0 /\ getItems(cb') = << >>
        /\ getItems(pushAll(cb', log'.ret)) = getItems(cb) ]_vars

\* C14 witness: a buffer of capacity 3 that held the third and fourth item
\* pushed (wrapped around the end of the array when nothing was cleared) was
\* drained.
C14_Witness ==
  /\ log.op = "drain" /\ cb.capacity = 3
  /\ log.ret = <<3, 4>> /\ cb.size = 0

\* the items in the backing array
Stored(b) == { b.buffer[i] : i \in DOMAIN b.buffer } \ {Null}

\* C15: dequeue() on a non-empty buffer returns the item pushed earliest among
\* those stored, removes it and nothing else, and takes 1 off the size; on an
\* empty buffer it returns null and changes nothing.
C15_DequeueFifo ==
  [][ log'.op = "dequeue" =>
        IF cb.size = 0
        THEN log'.ret = Null /\ cb' = cb
        ELSE /\ log'.ret \in Stored(cb)
             /\ \A item \in Stored(cb) : log'.ret <= item
             /\ Stored(cb') = Stored(cb) \ {log'.ret}
             /\ getItems(cb') = Tail(getItems(cb))
             /\ getSize(cb') = getSize(cb) - 1 ]_vars

\* C15 witness: in a buffer of capacity 3, after pushes and dequeues were
\* interleaved, a dequeue took item 3 from the last slot and head wrapped to
\* slot 0, where item 4 waits.
C15_Witness ==
  /\ log.op = "dequeue" /\ log.ret = 3
  /\ cb.capacity = 3 /\ cb.head = 0
  /\ cb.size = 1 /\ cb.buffer[0] = 4

-----------------------------------------------------------------------------
(* Claims about event identity, error containment and persistence *)

\* the queued events have defined, pairwise distinct ids
DistinctIds(events) ==
  /\ \A i \in DOMAIN events : events[i].id # Undefined
  /\ \A i, j \in DOMAIN events : i # j => events[i].id # events[j].id

\* C16: in every reachable state the queued events have defined, pairwise
\* distinct ids, and an event that stays queued keeps its id.
C16_UniqueStableIds ==
  /\ [] DistinctIds(state.events)
  /\ [][ \A i \in DOMAIN state.events, j \in DOMAIN state'.events :
            state.events[i].n = state'.events[j].n =>
              state.events[i].id = state'.events[j].id ]_vars

\* C17: when the eventTransformer throws, trackEvent does not throw and
\* queues exactly one event: the enriched event as it was before the
\* transformer was called.
C17_TransformerThrowContained ==
  [][ (obs'.op = "trackEvent" /\ obs'.transformThrew) =>
        /\ ~obs'.threw
        /\ obs'.pushes = 1
        /\ state'.events[Len(state'.events)] =
             [id |-> env.uuid, n |-> env.uuid, type |-> "custom",
              cyclic |-> FALSE]
        /\ \A i \in 1..(Len(state'.events) - 1) :
             state'.events[i].n # env.uuid ]_vars

\* C18: a delivery failure does not reach the caller: a flushEvents() whose
\* fetch was rejected or answered non-2xx completes without throwing (its
\* promise resolves), and no trackEvent call throws, whether or not it
\* started a flush.
C18_DeliveryFailureContained ==
  ( \/ obs.op = "flushResume" /\ obs.outcome \in {"status", "reject"}
    \/ obs.op = "trackEvent" ) => ~obs.threw

\* C18 witness: the fetch of a flush was rejected; the failure was counted,
\* the error event queued, and the call completed normally.
C18_Witness ==
  /\ obs.op = "flushResume" /\ obs.outcome = "reject"
  /\ ~obs.threw
  /\ state.failedSubmissions = 1 /\ obs.pushes = 1
  /\ state.events[Len(state.events)].type = "error"

\* the world as it is but with localStorage accessible
StorageWorking(w) == [w EXCEPT !.env.storageDenied = FALSE]

\* C19: a storage failure never leaves a public operation as an exception,
\* and a flush whose fetch succeeded leaves the queue and the delivery state
\* (failedSubmissions, lastFlushTime, pendingFlush) exactly as the same flush
\* does with storage working.
C19_StorageFailureContained ==
  [][ /\ ~obs'.threw
      /\ obs'.outcome = "ok" =>
           \A c \in ErrorChoices :
             state' = flushResume(StorageWorking(Begin("flushResume")),
                                  "ok", <<c>>).st ]_vars

\* the persisted events are the queued ones, one for one and in order (same
\* event, same id, same type)
Mirrors(stored, events) ==
  /\ Len(stored) = Len(events)
  /\ \A i \in DOMAIN events :
       /\ stored[i].n = events[i].n
       /\ stored[i].id = events[i].id
       /\ stored[i].type = events[i].type

\* C20: what a save writes is the queue of that moment, event by event and
\* in order, and the next initialize makes exactly the persisted events the
\* queue, in the same order, with bufferInfo.size their count and the engine
\* enabled; with the key absent or unreadable it leaves the queue as it was
\* and still enables the engine.
C20_PersistRestore ==
  [][ /\ (env'.storage # env.storage /\ env'.storage.kind = "events") =>
           Mirrors(env'.storage.events, state.events)
      /\ obs'.op = "initialize" =>
           /\ state'.isEnabled
           /\ IF env.storage.kind = "events"
              THEN /\ state'.events = env.storage.events
                   /\ state'.bufferInfo.size = Len(env.storage.events)
              ELSE /\ state'.events = state.events
                   /\ state'.bufferInfo = state.bufferInfo ]_vars

\* C20 witness: a page load has restored two persisted events, which are
\* still in storage.
C20_Witness ==
  /\ obs.op = "initialize" /\ state.isEnabled
  /\ Len(state.events) = 2 /\ state.bufferInfo.size = 2
  /\ env.storage.kind = "events" /\ env.storage.events = state.events

-----------------------------------------------------------------------------
(* Event enrichment on its own: the object literal trackEvent builds, key by *)
(* key.  An object is a function over EventKeys; Absent marks a key the      *)
(* object does not have, "undefined" a key it has with the value undefined,  *)
(* "" the empty string and "own" a value the caller chose.                   *)

EventKeys == {"id", "timestamp", "type", "gameId", "playId"}

Absent == "absent"

PartialEvents == [EventKeys -> {Absent, "undefined", "", "own"}]

\* o[k]: reading a key the object does not have gives undefined
Get(o, k) == IF o[k] = Absent THEN "undefined" ELSE o[k]

\* a || b
Or(a, b) == IF a \in {"undefined", ""} THEN b ELSE a

\* { ...base, ...o }: every key o has replaces the one of base, whatever its
\* value
Spread(base, o) == [k \in EventKeys |-> IF o[k] = Absent THEN base[k] ELSE o[k]]

\* the fullEvent literal of trackEvent: generateUUID(), Date.now() and the
\* three defaults first, then the caller's keys spread over them
fullEvent(event, config) ==
  Spread([k \in EventKeys |->
            CASE k = "id" -> "uuid"
              [] k = "timestamp" -> "now"
              [] k = "type" -> Or(Get(event, "type"), "custom")
              [] k = "gameId" -> Or(Get(event, "gameId"), config.gameId)
              [] k = "playId" -> Or(Get(event, "playId"), config.playId)],
         event)

\* nothing built yet
InitEnrich ==
  /\ PageLoad({ Options(2, FALSE, 10, FALSE, FALSE, FALSE) }, {}, {FALSE},
              {FALSE}, {})
  /\ cb = NoBuffer
  /\ log = NoLog
  /\ comp = [built |-> FALSE, event |-> [k \in EventKeys |-> Absent],
             fullEvent |-> [k \in EventKeys |-> Absent]]

\* an admitting trackEvent(event) builds the full event
Enrich ==
  /\ \E event \in PartialEvents :
       comp' = [built |-> TRUE, event |-> event,
                fullEvent |-> fullEvent(event, env.options)]
  /\ UNCHANGED <<state, env, obs, cb, log>>

NextEnrich == Enrich

SpecEnrich == InitEnrich /\ [][NextEnrich]_vars

-----------------------------------------------------------------------------
(* shouldSampleEvent on its own: every rate from 0 to 1 and every value of   *)
(* Math.random(), in tenths                                                  *)

SampleRates == 0..10

\* Math.random() returns a number in [0, 1)
RandomDraws == 0..9

InitSample ==
  /\ PageLoad({ Options(2, FALSE, 10, FALSE, FALSE, FALSE) }, {}, {FALSE},
              {FALSE}, {})
  /\ cb = NoBuffer
  /\ log = NoLog
  /\ comp = [sampled |-> FALSE, rate |-> 10, draw |-> 0, admitted |-> TRUE]

\* one call of shouldSampleEvent(rate) in which Math.random() returns draw
Sample ==
  /\ \E rate \in SampleRates, draw \in RandomDraws :
       comp' = [sampled |-> TRUE, rate |-> rate, draw |-> draw,
                admitted |-> shouldSampleEvent(rate, draw)]
  /\ UNCHANGED <<state, env, obs, cb, log>>

NextSample == Sample

SpecSample == InitSample /\ [][NextSample]_vars

-----------------------------------------------------------------------------
(* throttle(func, wait) on its own.  comp holds the closure (timeout, last), *)
(* the clock Date.now() reads, and what is known of func's invocations: the  *)
(* instant of the latest one, whether the last step invoked it, whether the  *)
(* throttled function was ever called, and whether calls were suppressed     *)
(* since the latest invocation.  A timeout is its due instant; a timer never *)
(* runs before it is due and may run any time after.                         *)

NoTimeout == 0 - 1

Never == 0 - 1

\* func.apply(this, args) at the current instant
Invoke(c) == [c EXCEPT !.invoked = TRUE, !.invokedAt = c.now, !.burst = FALSE]

\* a throttled(...args) that leaves a pending timeout armed when it invokes
throttled_KeepsTimeout(c) ==
  LET remaining == c.wait - (c.now - c.last)
      c0 == [c EXCEPT !.op = "call", !.invoked = FALSE, !.called = TRUE]
  IN IF remaining <= 0 \/ remaining > c.wait
     THEN Invoke([c0 EXCEPT !.last = c.now])
     ELSE IF c.timeout = NoTimeout
     THEN [c0 EXCEPT !.timeout = c.now + remaining, !.burst = TRUE]
     ELSE [c0 EXCEPT !.burst = TRUE]

\* throttled(...args)
throttled(c) ==
  LET remaining == c.wait - (c.now - c.last)
      c0 == [c EXCEPT !.op = "call", !.invoked = FALSE, !.called = TRUE]
  IN IF remaining <= 0 \/ remaining > c.wait
     THEN Invoke([c0 EXCEPT !.timeout = NoTimeout, !.last = c.now])
     ELSE IF c.timeout = NoTimeout
     THEN [c0 EXCEPT !.timeout = c.now + remaining, !.burst = TRUE]
     ELSE [c0 EXCEPT !.burst = TRUE]

\* the setTimeout callback of throttled
trailing(c) ==
  Invoke([c EXCEPT !.op = "timer", !.last = c.now, !.timeout = NoTimeout])

\* throttle(func, wait) just returned; Date.now() is far beyond wait
InitThrottle ==
  /\ PageLoad({ Options(2, FALSE, 10, FALSE, FALSE, FALSE) }, {}, {FALSE},
              {FALSE}, {})
  /\ cb = NoBuffer
  /\ log = NoLog
  /\ \E wait \in 1..MaxWait :
       comp = [wait |-> wait, now |-> MaxWait + 1, timeout |-> NoTimeout,
               last |-> 0, op |-> "", invoked |-> FALSE, invokedAt |-> Never,
               called |-> FALSE, burst |-> FALSE]

ThrottledCall ==
  /\ comp' = throttled(comp)
  /\ UNCHANGED <<state, env, obs, cb, log>>

TimeoutFires ==
  /\ comp.timeout # NoTimeout
  /\ comp.now >= comp.timeout
  /\ comp' = trailing(comp)
  /\ UNCHANGED <<state, env, obs, cb, log>>

\* a millisecond passes
Tick ==
  /\ comp.now < MaxClock
  /\ comp' = [comp EXCEPT !.now = @ + 1, !.op = "tick", !.invoked = FALSE]
  /\ UNCHANGED <<state, env, obs, cb, log>>

NextThrottle ==
  \/ ThrottledCall
  \/ TimeoutFires
  \/ Tick

SpecThrottle == InitThrottle /\ [][NextThrottle]_vars

-----------------------------------------------------------------------------
(* trackTimedInteraction(identifier) on its own.  comp holds the closure     *)
(* (identifier, the timers object), the clock, what the last call offered to *)
(* store.trackEvent and returned, and whether a start() is still open.       *)
(* timers is a plain object: reading a key it does not own falls through to  *)
(* Object.prototype.                                                         *)

\* identifiers an application may pick: an ordinary one, and one that is
\* also the name of a member of Object.prototype
Identifiers == {"level_1", "constructor"}

ObjectPrototypeKeys == {"constructor", "toString", "valueOf", "hasOwnProperty"}

\* the value of an inherited member: a function object
Inherited == 0 - 3

\* timers[identifier]: the own entry, else the inherited member, else
\* undefined
timersLookup(c) ==
  IF c.timers # Undefined THEN c.timers
  ELSE IF c.identifier \in ObjectPrototypeKeys THEN Inherited
  ELSE Undefined

\* !startTime
Falsy(v) == v = Undefined \/ v = 0

\* Date.now() - startTime, NaN when startTime is not a number
durationSince(c, startTime) ==
  IF startTime = Inherited THEN [ret |-> "NaN", duration |-> 0]
  ELSE [ret |-> "number", duration |-> c.now - startTime]

\* start(metadata)
start(c) ==
  [c EXCEPT !.op = "start", !.timers = c.now,
            !.emitted = "interaction_start", !.ret = "undefined",
            !.duration = 0, !.open = TRUE]

\* end(metadata)
end(c) ==
  LET startTime == timersLookup(c)
      c0 == [c EXCEPT !.op = "end", !.open = FALSE]
  IN IF Falsy(startTime)
     THEN [c0 EXCEPT !.emitted = "", !.ret = "undefined", !.duration = 0]
     ELSE [c0 EXCEPT !.timers = Undefined,
                     !.emitted = "interaction_end",
                     !.ret = durationSince(c, startTime).ret,
                     !.duration = durationSince(c, startTime).duration]

\* cancel(reason)
cancel(c) ==
  LET startTime == timersLookup(c)
      c0 == [c EXCEPT !.op = "cancel", !.open = FALSE, !.ret = "undefined",
                      !.duration = 0]
  IN IF Falsy(startTime)
     THEN [c0 EXCEPT !.emitted = ""]
     ELSE [c0 EXCEPT !.timers = Undefined,
                     !.emitted = "interaction_cancelled"]

\* trackTimedInteraction(identifier) just returned
InitTimed ==
  /\ PageLoad({ Options(2, FALSE, 10, FALSE, FALSE, FALSE) }, {}, {FALSE},
              {FALSE}, {})
  /\ cb = NoBuffer
  /\ log = NoLog
  /\ \E identifier \in Identifiers :
       comp = [identifier |-> identifier, timers |-> Undefined, now |-> 1,
               op |-> "", emitted |-> "", ret |-> "undefined",
               duration |-> 0, open |-> FALSE]

Start ==
  /\ comp' = start(comp)
  /\ UNCHANGED <<state, env, obs, cb, log>>

End ==
  /\ comp' = end(comp)
  /\ UNCHANGED <<state, env, obs, cb, log>>

Cancel ==
  /\ comp' = cancel(comp)
  /\ UNCHANGED <<state, env, obs, cb, log>>

\* a millisecond passes between two calls
TimePasses ==
  /\ comp.now < MaxClock
  /\ comp' = [comp EXCEPT !.now = @ + 1, !.op = "tick", !.emitted = "",
                          !.ret = "undefined", !.duration = 0]
  /\ UNCHANGED <<state, env, obs, cb, log>>

NextTimed ==
  \/ Start
  \/ End
  \/ Cancel
  \/ TimePasses

SpecTimed == InitTimed /\ [][NextTimed]_vars

-----------------------------------------------------------------------------
(* The v-track directive on one element.  comp holds the element (its event  *)
(* listeners and its _trackHandlers property), the v-track bindings mounted  *)
(* on it, and the last hook called.  A listener is the pair of its DOM event *)
(* and its handler; getThrottledHandler caches one handler per event and     *)
(* throttle time, so a handler is known by its throttle time.                *)

\* binding.arg of the v-track bindings on the element; "" is no argument
DirectiveArgs == {"mouseenter", "mouseleave", "touchstart", ""}

\* binding.value.throttle; Undefined is no throttle option
ThrottleOptions == {Undefined, 500}

\* no key for the event in _trackHandlers (or no _trackHandlers at all)
NoHandler == 0

\* binding.value as far as trackEvent reads it (event, target, context): the
\* value of one render and the value of a later one
BindingValues == {"first", "second"}

\* no binding of that argument on the element, nothing tracked yet
NoValue == "none"

\* binding.arg ? [binding.arg] : ['click']
eventsOf(arg) == IF arg = "" THEN {"click"} ELSE {arg}

DomEvents == UNION { eventsOf(arg) : arg \in DirectiveArgs }

\* getThrottledHandler: binding.value?.throttle || 300
getThrottledHandler(option) == IF option = Undefined THEN 300 ELSE option

\* the listeners el._trackHandlers names
handlersOf(c) ==
  { <<e, c.trackHandlers[e]>> : e \in { x \in DomEvents : c.trackHandlers[x] # NoHandler } }

\* the throttledHandlers entry of the element after getThrottledHandler(el,
\* event, binding, handler): an entry is <<event, throttleTime, value>>, the
\* cache key and the binding value the cached handler's closure has captured;
\* throttle(handler, throttleTime) is created only when the key is missing
cacheAfter(c, arg, option, value) ==
  LET h == getThrottledHandler(option)
  IN c.cache \cup { <<e, h, value>> : e \in { x \in eventsOf(arg) :
                       ~(\E k \in c.cache : k[1] = x /\ k[2] = h) } }

\* mounted(el, binding)
mounted(c, arg, option, value) ==
  LET h == getThrottledHandler(option)
  IN [c EXCEPT !.op = "mounted",
               !.bound = @ \cup {arg},
               !.value[arg] = value,
               !.cache = cacheAfter(c, arg, option, value),
               !.listeners = @ \cup { <<e, h>> : e \in eventsOf(arg) },
               !.trackHandlers = [e \in DomEvents |->
                                    IF e \in eventsOf(arg) THEN h ELSE @[e]]]

\* updated(el, binding)
updated(c, arg, option, value) ==
  LET h == getThrottledHandler(option)
  IN [c EXCEPT !.op = "updated",
               !.value[arg] = value,
               !.cache = cacheAfter(c, arg, option, value),
               !.listeners = (@ \ handlersOf(c)) \cup
                               { <<e, h>> : e \in eventsOf(arg) },
               !.trackHandlers = [e \in DomEvents |->
                                    IF e \in eventsOf(arg) THEN h
                                    ELSE NoHandler]]

\* unmounted(el)
unmounted(c) ==
  [c EXCEPT !.op = "unmounted",
            !.listeners = @ \ handlersOf(c),
            !.trackHandlers = [e \in DomEvents |-> NoHandler],
            !.cache = {}]

\* the DOM event of a binding is dispatched on the element and the throttle
\* wrapper lets the call through: the listener's handler builds the event
\* from the binding its closure holds and hands it to store.trackEvent
trackEventFrom(c, arg, listener) ==
  LET k == CHOOSE k \in c.cache : k[1] = listener[1] /\ k[2] = listener[2]
  IN [c EXCEPT !.op = "dispatch",
               !.tracked = [arg |-> arg, value |-> k[3]]]

\* an element just created, no directive mounted on it yet, in a template
\* that binds v-track with the arguments args and the values values
Element(args, values) ==
  /\ PageLoad({ Options(2, FALSE, 10, FALSE, FALSE, FALSE) }, {}, {FALSE},
              {FALSE}, {})
  /\ cb = NoBuffer
  /\ log = NoLog
  /\ comp = [args |-> args, values |-> values,
             bound |-> {}, listeners |-> {},
             trackHandlers |-> [e \in DomEvents |-> NoHandler],
             value |-> [arg \in DirectiveArgs |-> NoValue],
             cache |-> {},
             tracked |-> [arg |-> "", value |-> NoValue],
             op |-> ""]

\* a template with several v-track bindings whose value stays the same
InitTrack == Element(DirectiveArgs, {"first"})

\* a template with two v-track bindings whose value changes between renders
InitRebind == Element({"mouseenter", ""}, BindingValues)

\* Vue mounts one more v-track binding of the element
Mounted ==
  /\ \E arg \in comp.args \ comp.bound, option \in ThrottleOptions,
          value \in comp.values :
       comp' = mounted(comp, arg, option, value)
  /\ UNCHANGED <<state, env, obs, cb, log>>

\* the component re-renders: Vue calls updated for a binding of the element
Updated ==
  /\ \E arg \in comp.bound, option \in ThrottleOptions,
          value \in comp.values :
       comp' = updated(comp, arg, option, value)
  /\ UNCHANGED <<state, env, obs, cb, log>>

\* the element is removed: Vue calls unmounted for its bindings; the first
\* call does the work, and the next element starts afresh
Unmounted ==
  /\ comp.bound # {}
  /\ comp' = [unmounted(comp) EXCEPT
                !.bound = {},
                !.value = [arg \in DirectiveArgs |-> NoValue]]
  /\ UNCHANGED <<state, env, obs, cb, log>>

\* the user acts on the element: one of its listeners is called
Dispatch ==
  /\ \E arg \in comp.bound, listener \in comp.listeners :
       /\ listener[1] \in eventsOf(arg)
       /\ comp' = trackEventFrom(comp, arg, listener)
  /\ UNCHANGED <<state, env, obs, cb, log>>

NextTrack ==
  \/ Mounted
  \/ Updated
  \/ Unmounted
  \/ Dispatch

SpecTrack == InitTrack /\ [][NextTrack]_vars

SpecRebind == InitRebind /\ [][NextTrack]_vars

-----------------------------------------------------------------------------
(* The plugin with deferred initialization.  comp holds the global           *)
(* properties install() sets up (_eventQueue, _analyticsReady,               *)
(* _consentSetting) and, for the mount that ran, the events it handed to     *)
(* store.trackEvent and whether its catch block ran.                         *)

\* install(app, options) has returned
Installed ==
  [ eventQueue |-> << >>, analyticsReady |-> FALSE, consentSetting |-> "unset",
    handed |-> << >>, caught |-> FALSE, op |-> "" ]

\* eventQueue.forEach(event => store.trackEvent(event))
RECURSIVE trackAll(_, _)
trackAll(w, events) ==
  IF events = << >> THEN w
  ELSE trackAll(trackEvent(w, Head(events),
                           <<[draw |-> 0, transform |-> "same"],
                             [draw |-> 0, transform |-> "same"]>>),
                Tail(events))

\* the part of the mount override that follows store.initialize and the
\* monitors: the consent setting, the queued events, the ready flag; an
\* error thrown on the way ends in the catch block
mountRest(w, c) ==
  LET w1 == IF c.consentSetting = "unset" THEN w
            ELSE setConsent(w, c.consentSetting = "granted")
  IN IF w1.obs.threw
     THEN [w |-> [w1 EXCEPT !.obs.threw = FALSE],
           c |-> [c EXCEPT !.analyticsReady = TRUE, !.caught = TRUE]]
     ELSE [w |-> trackAll(w1, c.eventQueue),
           c |-> [c EXCEPT !.consentSetting = "unset",
                           !.handed = c.eventQueue,
                           !.eventQueue = << >>,
                           !.analyticsReady = TRUE]]

\* one step of the plugin: the store and the global properties afterwards
PluginStep(r) ==
  /\ Bounded(r.w)
  /\ state' = r.w.st
  /\ env' = r.w.env
  /\ obs' = r.w.obs
  /\ comp' = r.c
  /\ UNCHANGED <<cb, log>>

\* an application that requires consent, its plugin installed and not yet
\* mounted, in browsers with and without access to localStorage
InitDeferred ==
  /\ PageLoad({ Options(2, FALSE, 10, TRUE, FALSE, FALSE) },
              {PlainPartial, ClickPartial}, BOOLEAN, {FALSE}, {})
  /\ cb = NoBuffer
  /\ log = NoLog
  /\ comp = Installed

\* app.mount(container)
Mount ==
  /\ ~comp.analyticsReady
  /\ LET w0 == [initialize(Begin("mount"), env.options)
                  EXCEPT !.env.netMonitor = TRUE]
         w1 == updateNetworkStatus(w0, w0.env.onLine,
                                   <<[draw |-> 0, transform |-> "same"]>>)
     IN PluginStep(mountRest(w1, [comp EXCEPT !.op = "mount"]))

\* $gameAnalytics.trackEvent(event)
GaTrackEvent ==
  \E event \in env.partials :
    IF comp.analyticsReady
    THEN \E c1 \in ChoicesHere, c2 \in ErrorChoices :
           PluginStep([w |-> trackEvent(Begin("trackEvent"), event, <<c1, c2>>),
                       c |-> [comp EXCEPT !.op = "trackEvent"]])
    ELSE /\ Len(comp.eventQueue) < MaxHeld
         /\ PluginStep([w |-> Begin("trackEvent"),
                        c |-> [comp EXCEPT !.op = "trackEvent",
                                           !.eventQueue = Append(@, event)]])

\* $gameAnalytics.setConsent(hasConsent)
GaSetConsent ==
  \E hasConsent \in BOOLEAN :
    IF comp.analyticsReady
    THEN PluginStep([w |-> [setConsent(Begin("setConsent"), hasConsent)
                             EXCEPT !.obs.threw = FALSE],
                     c |-> [comp EXCEPT !.op = "setConsent"]])
    ELSE PluginStep([w |-> Begin("setConsent"),
                     c |-> [comp EXCEPT !.op = "setConsent",
                                        !.consentSetting =
                                          IF hasConsent THEN "granted"
                                          ELSE "revoked"]])

\* $gameAnalytics.clearEvents()
GaClearEvents ==
  PluginStep([w |-> IF comp.analyticsReady
                    THEN clearEvents(Begin("clearEvents"))
                    ELSE Begin("clearEvents"),
              c |-> [comp EXCEPT !.op = "clearEvents",
                                 !.eventQueue = << >>]])

NextDeferred ==
  \/ Mount
  \/ GaTrackEvent
  \/ GaSetConsent
  \/ GaClearEvents
  \/ FetchSettles
  \/ IdleCallback

SpecDeferred == InitDeferred /\ [][NextDeferred]_vars

-----------------------------------------------------------------------------
(* Claims about teardown, accounting, accessors and the event pipeline *)

\* C21: once the app is unmounted, no timer the plugin or the store armed
\* fires again: neither the recurring flush timer nor the performance
\* sampling timer.
C21_TimersDisarmed ==
  [][ env.unmounted => obs'.op \notin {"flushTimer", "perfTimer"} ]_vars

\* C22: delivery accounting. A flush whose submission fails (rejected fetch or
\* non-2xx response) adds exactly 1 to failedSubmissions and leaves
\* lastFlushTime alone; a flush whose submission returned 2xx, and a no-op
\* flush, leave failedSubmissions alone; lastFlushTime is set only by a flush
\* that returned 2xx; within one page load failedSubmissions never decreases.
C22_DeliveryAccounting ==
  [][ /\ state'.isEnabled =>
           state'.failedSubmissions >= state.failedSubmissions
      /\ obs'.outcome \in {"status", "reject"} =>
           /\ state'.failedSubmissions = state.failedSubmissions + 1
           /\ state'.lastFlushTime = state.lastFlushTime
      /\ obs'.outcome = "ok" =>
           /\ state'.failedSubmissions = state.failedSubmissions
           /\ state'.lastFlushTime = Date_now
      /\ (state'.isEnabled /\ state'.lastFlushTime # state.lastFlushTime) =>
           obs'.outcome = "ok"
      /\ (obs'.op = "flushEvents"
           /\ (Len(state.events) = 0 \/ state.pendingFlush
                 \/ ~state.networkStatus.isOnline)) =>
           /\ state'.failedSubmissions = state.failedSubmissions
           /\ state'.lastFlushTime = state.lastFlushTime ]_vars

\* C23: the read accessors are projections of the current state, never
\* cached: after any sequence of operations, eventCount is the queue length and
\* hasConsent, isEnabled, isDebugMode and isOnline, read through
\* useGameAnalytics() and through the store instance useAnalyticsStore()
\* returns, are the store's current values.
C23_AccessorsAreProjections ==
  env.storeInstance.created =>
    /\ useGameAnalytics(World).eventCount = Len(state.events)
    /\ useGameAnalytics(World).hasConsent = state.hasConsent
    /\ useGameAnalytics(World).isEnabled = state.isEnabled
    /\ useGameAnalytics(World).isDebugMode = state.isDebugMode
    /\ useGameAnalytics(World).isOnline = state.networkStatus.isOnline
    /\ env.storeInstance.hasConsent = state.hasConsent
    /\ env.storeInstance.isEnabled = state.isEnabled
    /\ env.storeInstance.isDebugMode = state.isDebugMode

\* C24: a failed flush with trackErrors on offers exactly one 'error' event
\* to trackEvent, which treats it as any other event: nothing is queued when
\* tracking is not allowed or the event is sampled out, and what is queued is
\* the enriched error event; with trackErrors off a failed flush queues
\* nothing.
C24_FailureReportedThroughTrackEvent ==
  [][ state'.failedSubmissions = state.failedSubmissions + 1 =>
        LET rate == state.config.sampleRate
            w1 == [World EXCEPT !.st.failedSubmissions = @ + 1]
            last == state'.events[Len(state'.events)]
        IN /\ obs'.pushes <= 1
           /\ obs'.pushes = 0 => state'.events = state.events
           /\ obs'.pushes = 1 =>
                 /\ last.type = "error" /\ last.id = last.n
                 /\ last.n = env.uuid
           /\ ~state.config.trackErrors => obs'.pushes = 0
           /\ state.config.trackErrors =>
                 /\ ~isTrackingAllowed(World) =>
                       obs'.pushes = 0 /\ obs'.draws = 0
                 /\ (isTrackingAllowed(World) /\ rate >= 10) =>
                       obs'.pushes = 1 /\ obs'.draws = 0
                 /\ (isTrackingAllowed(World) /\ rate < 10) =>
                       obs'.draws = 1
                 /\ \E c \in ErrorChoices :
                       state' = flushFinally(trackEvent(w1, ErrorPartial,
                                                        <<c>>)).st ]_vars

\* C24 witness: a flush failed with trackErrors on after consent was revoked
\* while the fetch was in flight, and no error event was queued.
C24_Witness ==
  /\ obs.op = "flushResume" /\ obs.outcome \in {"status", "reject"}
  /\ state.config.trackErrors /\ ~state.hasConsent
  /\ state.failedSubmissions = 1
  /\ obs.pushes = 0 /\ state.events = << >>

\* the serial numbers of the queued events, in queue order
Serials(events) == [i \in DOMAIN events |-> events[i].n]

\* C25: the queue refines a CircularBuffer of capacity maxQueueSize with
\* strategy 'discard-oldest': whenever an admitted trackEvent pushes, with no
\* flush started, a buffer that agreed with (events, bufferInfo.size,
\* bufferInfo.overflowCount) before the push agrees with them after it, on
\* getItems(), getSize() and getOverflowCount().
C25_QueueRefinesCircularBuffer ==
  [][ (obs'.op = "trackEvent" /\ obs'.pushes = 1 /\ obs'.fetches = 0) =>
        LET before ==
              [pushAll(CircularBuffer([capacity |-> state.config.maxQueueSize,
                                       overflowStrategy |-> "discard-oldest"]),
                       Serials(state.events))
                 EXCEPT !.overflowCount = state.bufferInfo.overflowCount]
            after == push(before, env.uuid).b
        IN /\ getItems(before) = Serials(state.events)
           /\ getSize(before) = state.bufferInfo.size
           /\ getItems(after) = Serials(state'.events)
           /\ getSize(after) = state'.bufferInfo.size
           /\ getOverflowCount(after) = state'.bufferInfo.overflowCount ]_vars

\* the partial supplies a value for the key
Supplies(event, k) == event[k] \notin {Absent, "undefined"}

\* C26: the event an admitting trackEvent queues has a defined id and a
\* defined timestamp, the partial's type when it has one and "custom"
\* otherwise, and the partial's gameId and playId when it supplies them and
\* the configured ones otherwise.
C26_EnrichmentDefaults ==
  comp.built =>
    /\ comp.fullEvent["id"] # "undefined"
    /\ comp.fullEvent["timestamp"] # "undefined"
    /\ comp.fullEvent["type"] =
         IF Supplies(comp.event, "type") THEN comp.event["type"] ELSE "custom"
    /\ comp.fullEvent["gameId"] =
         IF Supplies(comp.event, "gameId") THEN comp.event["gameId"]
         ELSE env.options.gameId
    /\ comp.fullEvent["playId"] =
         IF Supplies(comp.event, "playId") THEN comp.event["playId"]
         ELSE env.options.playId

\* C27: for a sampleRate strictly between 0 and 1 the event is admitted if
\* and only if the draw from [0, 1) is strictly less than sampleRate; a draw
\* equal to sampleRate is rejected.
C27_StrictSampling ==
  (comp.sampled /\ 0 < comp.rate /\ comp.rate < 10) =>
    (comp.admitted <=> comp.draw < comp.rate)

\* C28: a function wrapped by throttle(func, wait) is invoked at most once
\* per wait interval: the first call invokes it at once, a call within wait
\* of the latest invocation does not invoke it at call time, any two
\* consecutive invocations are at least wait apart, and a trailing
\* invocation happens only for a burst of suppressed calls, once, leaving no
\* timer behind.
C28_ThrottleSpacing ==
  [][ /\ (comp'.op = "call" /\ ~comp.called) => comp'.invoked
      /\ (comp'.op = "call" /\ comp.invokedAt # Never
            /\ comp.now - comp.invokedAt < comp.wait) => ~comp'.invoked
      /\ (comp'.invoked /\ comp.invokedAt # Never) =>
            comp'.invokedAt - comp.invokedAt >= comp.wait
      /\ (comp'.op = "timer") =>
            /\ comp.burst /\ comp'.invoked
            /\ comp'.timeout = NoTimeout /\ ~comp'.burst ]_vars

\* C28 witness: a burst of calls was suppressed and its one trailing
\* invocation ran, wait after the invocation of the first call.
C28_Witness ==
  /\ comp.op = "timer" /\ comp.invoked
  /\ comp.wait = MaxWait
  /\ comp.invokedAt = MaxWait + 1 + comp.wait

\* C29: over any sequence of start/end/cancel calls on a tracker, end()
\* emits one interaction_end event and returns a duration exactly when a
\* start() is open (not yet closed by end() or cancel()), and otherwise
\* returns undefined and emits nothing; cancel() with no open start emits
\* nothing; so each start is closed by at most one interaction_end or
\* interaction_cancelled event.
C29_TimedInteractionClosedOnce ==
  [][ /\ (comp'.op = "end" /\ comp.open) =>
            /\ comp'.emitted = "interaction_end" /\ comp'.ret = "number"
            /\ comp'.duration >= 0
      /\ (comp'.op = "end" /\ ~comp.open) =>
            comp'.emitted = "" /\ comp'.ret = "undefined"
      /\ (comp'.op = "cancel" /\ ~comp.open) => comp'.emitted = ""
      /\ comp'.emitted \in {"interaction_end", "interaction_cancelled"} =>
            comp.open ]_vars

\* C30: v-track bindings on one element, each for its own DOM event, all stay
\* active: after every mounted and updated hook the element has a listener
\* for the event of each binding mounted on it, and unmounted leaves no
\* listener behind.
C30_AllBindingsStayActive ==
  [][ /\ comp'.op \in {"mounted", "updated"} =>
            \A arg \in comp'.bound : \A e \in eventsOf(arg) :
              \E l \in comp'.listeners : l[1] = e
      /\ comp'.op = "unmounted" => comp'.listeners = {} ]_vars

\* C31: the events handed to $gameAnalytics.trackEvent before the app is
\* mounted are held in call order, and mount hands them to store.trackEvent
\* in that order, after store.initialize and after a consent value set before
\* mount was applied; when mount returns every held event has been handed
\* over, the pre-mount queue is empty and the ready flag is true.
C31_HeldEventsHandedOver ==
  [][ (~comp.analyticsReady /\ comp'.op = "mount") =>
        /\ comp'.handed = comp.eventQueue
        /\ comp'.eventQueue = << >>
        /\ comp'.analyticsReady
        /\ state'.isEnabled
        /\ comp.consentSetting # "unset" =>
              state'.hasConsent = (comp.consentSetting = "granted")
        /\ (comp.consentSetting = "granted") =>
              obs'.pushes = Len(comp.eventQueue) ]_vars

\* C32: while consentRequired is set and consent is not granted, or
\* respectDoNotTrack is set and the browser sends Do Not Track, no network
\* submission is started, whatever calls flushEvents and whatever the queue
\* holds (events restored by initialize included).
C32_NoSubmissionWithoutConsent ==
  [][ obs'.fetches > 0 =>
        /\ ~(state'.config.consentRequired /\ ~state'.hasConsent)
        /\ ~(state'.config.respectDoNotTrack /\ env'.doNotTrack) ]_vars

\* C33: with consentRequired set, from the return of setConsent(false) until
\* the next setConsent(true) the queue stays empty and the persisted events
\* key stays absent, whatever happens in between: trackEvent calls, pending
\* persist callbacks, the flush in flight settling, timers, beforeunload.
C33_RevocationHolds ==
  [][ /\ (obs'.op = "revokeConsent" /\ ~obs'.threw) =>
            (Len(state'.events) = 0 /\ env'.storage.kind = "absent")
      /\ (state.config.consentRequired /\ ~state.hasConsent
            /\ Len(state.events) = 0 /\ env.storage.kind = "absent"
            /\ ~state'.hasConsent) =>
            (Len(state'.events) = 0 /\ env'.storage.kind = "absent") ]_vars

\* C33 witness: consent was revoked while a flush was in flight, the flush
\* then failed with trackErrors on, and the queue and the storage are still
\* empty.
C33_Witness ==
  /\ obs.outcome \in {"status", "reject"}
  /\ state.config.consentRequired /\ state.config.trackErrors
  /\ ~state.hasConsent /\ ~env.storageDenied
  /\ state.failedSubmissions = 1 /\ obs.pushes = 0
  /\ Len(state.events) = 0 /\ env.storage.kind = "absent"

\* C34: events removed from the queue by clearEvents or filterEvents do not
\* come back: once no background persist callback is pending, the persisted
\* snapshot holds none of the removed events (so that initialize cannot
\* restore them).
C34_RemovedEventsStayRemoved ==
  [][ (obs'.op \in {"clearEvents", "filterEvents"} /\ env'.idle = 0) =>
        \A i \in DOMAIN state.events :
          (\A j \in DOMAIN state'.events : state'.events[j].n # state.events[i].n)
            => (\A k \in DOMAIN env'.storage.events :
                  env'.storage.events[k].n # state.events[i].n) ]_vars

\* C35: a failed flush never starts another submission by itself: the error
\* event it queues does not start a fetch even when it brings the queue to
\* batchSize, because pendingFlush is still set while the failure is handled;
\* and no single trigger starts more than one fetch.
C35_FailureStartsNoFetch ==
  [][ /\ obs'.fetches <= 1
      /\ state'.failedSubmissions = state.failedSubmissions + 1 =>
            (obs'.fetches = 0 /\ ~env'.fetch.active) ]_vars

\* C35 witness: a flush failed with trackErrors on, its error event was
\* queued and filled the queue to batchSize, and no fetch was started.
C35_Witness ==
  /\ obs.op = "flushResume" /\ obs.outcome = "status"
  /\ state.config.trackErrors /\ obs.pushes = 1
  /\ Len(state.events) >= state.config.batchSize
  /\ state.events[Len(state.events)].type = "error"
  /\ state.networkStatus.isOnline
  /\ obs.fetches = 0 /\ ~env.fetch.active /\ ~state.pendingFlush

\* C36: after every store action (initialize, trackEvent, a flush settling,
\* clearEvents, filterEvents, setConsent) bufferInfo.size is the number of
\* events in the queue.
C36_SizeIsQueueLength == state.bufferInfo.size = Len(state.events)

\* C36 witness: filterEvents took the older of two queued events out and
\* left the newer one, and bufferInfo.size is 1.
C36_Witness ==
  /\ obs.op = "filterEvents"
  /\ Len(state.events) = 1 /\ state.events[1].n = 2
  /\ state.bufferInfo.size = 1

\* C37: in every state after initialize with a positive maxQueueSize, the
\* queue holds at most maxQueueSize events, also right after a persisted
\* snapshot was restored and while a flush is in flight.
C37_QueueWithinMaxQueueSize ==
  (state.isEnabled /\ state.config.maxQueueSize > 0) =>
      Len(state.events) <= state.config.maxQueueSize

\* the event that got serial number n is in the queue
Queued(n) == \E i \in DOMAIN state.events : state.events[i].n = n

C39_TrackedFromCurrentBinding ==
  [][ comp'.op = "dispatch" =>
        comp'.tracked.value = comp.value[comp'.tracked.arg] ]_vars

\* slot i of the backing array lies in the live window [head, head + size)
Live(i) == \E k \in 0..(cb.size - 1) : i = (cb.head + k) % cb.capacity

\* C40: representation invariant of CircularBuffer, for capacity >= 1 and
\* every sequence of push, dequeue, drain and clear under every strategy:
\* 0 <= size <= capacity, 0 <= head < capacity, tail = (head + size) mod
\* capacity, every slot outside the live window is null, and getItems()
\* returns exactly size items.
C40_RepresentationInvariant ==
  /\ 0 <= cb.size /\ cb.size <= cb.capacity
  /\ 0 <= cb.head /\ cb.head < cb.capacity
  /\ cb.tail = (cb.head + cb.size) % cb.capacity
  /\ \A i \in DOMAIN cb.buffer : ~Live(i) => cb.buffer[i] = Null
  /\ Len(getItems(cb)) = cb.size

\* C40 witness: a buffer of capacity 3 whose live window wraps around the end
\* of the array after pushes and dequeues: head 2, two items, slot 1 empty.
C40_Witness ==
  /\ cb.capacity = 3 /\ cb.head = 2 /\ cb.size = 2 /\ cb.tail = 1
  /\ cb.buffer[1] = Null /\ cb.buffer[2] # Null /\ cb.buffer[0] # Null
  /\ Len(getItems(cb)) = 2
  /\ log.op = "push"

=============================================================================
